---- MODULE Spec2Model ----
(***************************************************************************)
(* Asset farms of the burrowland contract (contract/src/asset_farm.rs):    *)
(* the reward accrual of AssetFarm::update, the per-execution cache        *)
(* ASSET_FARMS in front of the durable registry Contract::asset_farms,     *)
(* and the public views get_asset_farm / get_asset_farms /                 *)
(* get_asset_farms_paged.                                                  *)
(*                                                                         *)
(* Time is counted in ticks; NANOS_PER_DAY ticks make one day.  Balances   *)
(* are naturals.  A HashMap / LookupMap is a function whose DOMAIN is the  *)
(* set of keys present.  Option<T> is a sequence: << >> is None and <<x>>  *)
(* is Some(x).                                                             *)
(***************************************************************************)
EXTENDS Integers, Sequences, FiniteSets, TLC

VARIABLES
    now,            \* env::block_timestamp() of the running execution
    asset_ids,      \* Contract::asset_ids: the ordered index of underlying assets (durable)
    asset_farms,    \* Contract::asset_farms: FarmId -> VAssetFarm (durable)
    storage,        \* durable key-value storage behind the LookupMaps: prefix -> (TokenId -> VAssetFarmReward)
    committed,      \* the durable state (asset_farms, storage) the running execution started from
    cache,          \* ASSET_FARMS: FarmId -> Option<AssetFarm> (memory of the running contract instance)
    ret,            \* what the last call returned
    lastOp,         \* the name of the last call
    lookups,        \* the internal_get_asset_farm calls the last call made: <<farm id, result>> each
    updates,        \* history: per farm, how often AssetFarm::update ran in this execution
    written,        \* history: per farm, the snapshot last passed to internal_set_asset_farm in this execution
    sets,           \* history: how many internal_set_asset_farm calls there have been
    lastRead,       \* history: per farm, the result of the last lookup in this execution since the last set
    seen,           \* history: per farm and reward token, the reward_per_share the last lookup showed
    farm,           \* the snapshot under test of the accrual specification
    step            \* history of the accrual specification: the last step and the running totals

vars == <<now, asset_ids, asset_farms, storage, committed, cache, ret, lastOp, lookups, updates, written, sets, lastRead, seen, farm, step>>

(***************************************************************************)
(* Bounds of the model.                                                    *)
(***************************************************************************)
\* Ticks per day.  The source counts nanoseconds (24 * 60 * 60 * 10^9 per day);
\* the model counts a coarser tick so that products stay small.
NANOS_PER_DAY == 2

\* The host clock runs from 0 to MaxTime ticks.
MaxTime == 2

\* Writers call internal_set_asset_farm at most MaxSets times.
MaxSets == 2

\* The largest limit and from_index handed to get_asset_farms_paged.
MaxLimit == 2

\* Timestamp is u64 in the source; the model's timestamps are taken modulo
\* TimestampModulus, which stands for 2^64.
TimestampModulus == 8

\* Scale of the fixed-point BigDecimal: one unit is 1 / BIG_DIVISOR.
BIG_DIVISOR == 10

(***************************************************************************)
(* Identifiers.                                                            *)
(***************************************************************************)
\* Underlying assets.
AssetIds == {"a1", "a2", "a3"}

\* Reward tokens.
TokenIds == {"t1", "t2"}

Supplied(token_id) == <<"Supplied", token_id>>

Borrowed(token_id) == <<"Borrowed", token_id>>

FarmIds == {Supplied(a) : a \in AssetIds} \cup {Borrowed(a) : a \in AssetIds}

None == << >>

Some(x) == <<x>>

Min(a, b) == IF a < b THEN a ELSE b

\* m with key k bound to v (HashMap::insert, LookupMap::insert).
Insert(m, k, v) == [x \in (DOMAIN m) \cup {k} |-> IF x = k THEN v ELSE m[x]]

\* m without key k (HashMap::remove, LookupMap::remove).
Remove(m, k) == [x \in (DOMAIN m) \ {k} |-> m[x]]

EmptyMap == [x \in {} |-> 0]

(***************************************************************************)
(* Numbers.                                                                *)
(***************************************************************************)
\* u128_ratio(a, b, c): a * b / c, truncating.
u128_ratio(a, b, c) == (a * b) \div c

\* a - b on Timestamp where the build does not check for overflow: the
\* difference modulo the width.
WrappingSub(a, b) == (a - b) % TimestampModulus

\* a - b on Timestamp overflows: with overflow checks the subtraction panics
\* ('attempt to subtract with overflow').
SubOverflows(a, b) == a < b

\* BigDecimal::from(u128).
BigDecimalFrom(a) == a * BIG_DIVISOR

\* BigDecimal / BigDecimal.
BigDecimalDiv(a, b) == (a * BIG_DIVISOR) \div b

\* BigDecimal + BigDecimal.
BigDecimalAdd(a, b) == a + b

(***************************************************************************)
(* Records and their durable envelopes.                                    *)
(***************************************************************************)
\* VAssetFarmReward::from(AssetFarmReward) and back.
ToVAssetFarmReward(c) == [Current |-> c]

FromVAssetFarmReward(v) == v.Current

\* VAssetFarm::from(AssetFarm) and back.
ToVAssetFarm(c) == [Current |-> c]

FromVAssetFarm(v) == v.Current

\* A LookupMap value is a handle: the key prefix under which its entries live
\* in storage.  Its Borsh form is that prefix alone.
LookupMapNew(prefix) == [prefix |-> prefix]

LookupMapSerialize(map) == map.prefix

LookupMapDeserialize(bytes) == [prefix |-> bytes]

\* The storage prefix of a farm's inactive rewards.
InactivePrefix(farm_id) == farm_id

\* Mutant of CloneAssetFarm: the clone starts from an empty rewards map.
CloneAssetFarm_NoRewards(self) ==
    [block_timestamp |-> self.block_timestamp,
     rewards |-> EmptyMap,
     inactive_rewards |-> LookupMapDeserialize(LookupMapSerialize(self.inactive_rewards))]

\* impl Clone for AssetFarm.
CloneAssetFarm(self) ==
    [block_timestamp |-> self.block_timestamp,
     rewards |-> self.rewards,
     inactive_rewards |-> LookupMapDeserialize(LookupMapSerialize(self.inactive_rewards))]

\* Option<AssetFarm>::clone.
CloneOption(o) == IF o = None THEN None ELSE Some(CloneAssetFarm(o[1]))

(***************************************************************************)
(* AssetFarm: the accrual and the inactive rewards.                        *)
(***************************************************************************)
\* internal_set_inactive_asset_farm_reward: writes through the handle.
internal_set_inactive_asset_farm_reward(self, st, token_id, asset_farm_reward) ==
    [st EXCEPT ![self.inactive_rewards.prefix] =
        Insert(@, token_id, ToVAssetFarmReward(asset_farm_reward))]

\* internal_get_inactive_asset_farm_reward: reads through the handle.
internal_get_inactive_asset_farm_reward(self, st, token_id) ==
    IF token_id \in DOMAIN st[self.inactive_rewards.prefix]
    THEN Some(FromVAssetFarmReward(st[self.inactive_rewards.prefix][token_id]))
    ELSE None

\* internal_remove_inactive_asset_farm_reward: the storage after the removal.
internal_remove_inactive_asset_farm_reward(self, st, token_id) ==
    [st EXCEPT ![self.inactive_rewards.prefix] = Remove(@, token_id)]

\* Mutant of AcquiredRewards: the budget of the period, not clamped to what remains.
AcquiredRewards_Unclamped(reward, time_diff) ==
    u128_ratio(reward.reward_per_day, time_diff, NANOS_PER_DAY)

\* Mutant of AcquiredRewards: the budget of the period is rounded up.
AcquiredRewards_RoundUp(reward, time_diff) ==
    Min(reward.remaining_rewards,
        (reward.reward_per_day * time_diff + NANOS_PER_DAY - 1) \div NANOS_PER_DAY)

\* Mutant of AcquiredRewards: the budget is reward_per_day per tick, not per day.
AcquiredRewards_PerTick(reward, time_diff) ==
    Min(reward.remaining_rewards, reward.reward_per_day * time_diff)

\* The rewards acquired by one reward over time_diff (lines 88-95).
AcquiredRewards(reward, time_diff) ==
    Min(reward.remaining_rewards,
        u128_ratio(reward.reward_per_day, time_diff, NANOS_PER_DAY))

\* Mutant of UpdateReward: reward_per_share is set to the period's share, not raised by it.
UpdateReward_Overwrite(reward, time_diff) ==
    IF reward.boosted_shares = 0
    THEN reward
    ELSE LET acquired_rewards == AcquiredRewards(reward, time_diff)
         IN  [reward EXCEPT
                 !.remaining_rewards = @ - acquired_rewards,
                 !.reward_per_share =
                     BigDecimalDiv(BigDecimalFrom(acquired_rewards),
                                   BigDecimalFrom(reward.boosted_shares))]

\* Mutant of UpdateReward: a reward without shares still spends its budget.
UpdateReward_Decay(reward, time_diff) ==
    LET acquired_rewards == AcquiredRewards(reward, time_diff)
    IN  IF reward.boosted_shares = 0
        THEN [reward EXCEPT !.remaining_rewards = @ - acquired_rewards]
        ELSE [reward EXCEPT
                 !.remaining_rewards = @ - acquired_rewards,
                 !.reward_per_share =
                     BigDecimalAdd(@, BigDecimalDiv(BigDecimalFrom(acquired_rewards),
                                                    BigDecimalFrom(reward.boosted_shares)))]

\* The body of the scan over the active rewards, for one reward (lines 85-98).
UpdateReward(reward, time_diff) ==
    IF reward.boosted_shares = 0
    THEN reward
    ELSE LET acquired_rewards == AcquiredRewards(reward, time_diff)
         IN  [reward EXCEPT
                 !.remaining_rewards = @ - acquired_rewards,
                 !.reward_per_share =
                     BigDecimalAdd(@, BigDecimalDiv(BigDecimalFrom(acquired_rewards),
                                                    BigDecimalFrom(reward.boosted_shares)))]

\* Mutant of NewInactiveReward: only a reward that had something left before
\* the scan is marked.
NewInactiveReward_OnlyPaid(rewards, time_diff) ==
    {token_id \in DOMAIN rewards :
        /\ rewards[token_id].boosted_shares # 0
        /\ rewards[token_id].remaining_rewards # 0
        /\ UpdateReward(rewards[token_id], time_diff).remaining_rewards = 0}

\* Mutant of NewInactiveReward: the test for an exhausted reward is made on the
\* reward as it was before the scan.
NewInactiveReward_BeforeScan(rewards, time_diff) ==
    {token_id \in DOMAIN rewards :
        /\ rewards[token_id].boosted_shares # 0
        /\ rewards[token_id].remaining_rewards = 0}

\* The tokens the scan marks for retirement (lines 99-101).
NewInactiveReward(rewards, time_diff) ==
    {token_id \in DOMAIN rewards :
        /\ rewards[token_id].boosted_shares # 0
        /\ UpdateReward(rewards[token_id], time_diff).remaining_rewards = 0}

\* The second loop (lines 103-106): each marked token leaves the active map and
\* is written to the inactive map.
RECURSIVE MoveInactive(_, _, _)
MoveInactive(self, st, tokens) ==
    IF tokens = {}
    THEN [farm |-> self, storage |-> st]
    ELSE LET token_id == CHOOSE t \in tokens : TRUE
             reward == self.rewards[token_id]
             removed == [self EXCEPT !.rewards = Remove(@, token_id)]
         IN  MoveInactive(removed,
                          internal_set_inactive_asset_farm_reward(removed, st, token_id, reward),
                          tokens \ {token_id})

\* Mutant of update: the snapshot's block_timestamp is advanced only when some
\* active reward has boosted shares.
update_StampOnAccrual(self, st, block_timestamp) ==
    IF block_timestamp = self.block_timestamp
    THEN [farm |-> self, storage |-> st]
    ELSE LET time_diff == WrappingSub(block_timestamp, self.block_timestamp)
             accrues == \E token_id \in DOMAIN self.rewards :
                            self.rewards[token_id].boosted_shares # 0
             scanned == [self EXCEPT
                            !.block_timestamp = IF accrues THEN block_timestamp ELSE @,
                            !.rewards = [token_id \in DOMAIN self.rewards |->
                                            UpdateReward(self.rewards[token_id], time_diff)]]
         IN  MoveInactive(scanned, st, NewInactiveReward(self.rewards, time_diff))

\* Mutant of update: the snapshot's block_timestamp is not advanced.
update_KeepTimestamp(self, st, block_timestamp) ==
    IF block_timestamp = self.block_timestamp
    THEN [farm |-> self, storage |-> st]
    ELSE LET time_diff == WrappingSub(block_timestamp, self.block_timestamp)
             scanned == [self EXCEPT
                            !.rewards = [token_id \in DOMAIN self.rewards |->
                                            UpdateReward(self.rewards[token_id], time_diff)]]
         IN  MoveInactive(scanned, st, NewInactiveReward(self.rewards, time_diff))

\* AssetFarm::update with env::block_timestamp() = block_timestamp: the farm
\* and the storage after it, where the subtraction of line 81 does not panic.
update(self, st, block_timestamp) ==
    IF block_timestamp = self.block_timestamp
    THEN [farm |-> self, storage |-> st]
    ELSE LET time_diff == WrappingSub(block_timestamp, self.block_timestamp)
             scanned == [self EXCEPT
                            !.block_timestamp = block_timestamp,
                            !.rewards = [token_id \in DOMAIN self.rewards |->
                                            UpdateReward(self.rewards[token_id], time_diff)]]
         IN  MoveInactive(scanned, st, NewInactiveReward(self.rewards, time_diff))

(***************************************************************************)
(* Contract: the cache in front of the registry.                           *)
(*                                                                         *)
(* A lookup context c carries what a call has done so far: the cache, the  *)
(* storage, the lookups made and the farms on which update ran.            *)
(***************************************************************************)
Context == [cache |-> cache, storage |-> storage, lookups |-> << >>, ran |-> << >>]

\* Mutant of internal_get_asset_farm: a loaded farm is not put into the cache.
internal_get_asset_farm_NoInsert(c, farm_id) ==
    IF farm_id \in DOMAIN c.cache
    THEN LET result == CloneOption(c.cache[farm_id])
         IN  [result |-> result,
              context |-> [c EXCEPT !.lookups = Append(@, <<farm_id, result>>)]]
    ELSE IF farm_id \in DOMAIN asset_farms
    THEN LET u == update(FromVAssetFarm(asset_farms[farm_id]), c.storage, now)
             asset_farm == Some(u.farm)
         IN  [result |-> asset_farm,
              context |-> [cache |-> c.cache,
                           storage |-> u.storage,
                           lookups |-> Append(c.lookups, <<farm_id, asset_farm>>),
                           ran |-> Append(c.ran, farm_id)]]
    ELSE [result |-> None,
          context |-> [c EXCEPT !.cache = Insert(@, farm_id, None),
                                !.lookups = Append(@, <<farm_id, None>>)]]

\* Contract::internal_get_asset_farm: the result and the context after it.
internal_get_asset_farm(c, farm_id) ==
    IF farm_id \in DOMAIN c.cache
    THEN LET result == CloneOption(c.cache[farm_id])
         IN  [result |-> result,
              context |-> [c EXCEPT !.lookups = Append(@, <<farm_id, result>>)]]
    ELSE IF farm_id \in DOMAIN asset_farms
    THEN LET u == update(FromVAssetFarm(asset_farms[farm_id]), c.storage, now)
             asset_farm == Some(u.farm)
         IN  [result |-> asset_farm,
              context |-> [cache |-> Insert(c.cache, farm_id, CloneOption(asset_farm)),
                           storage |-> u.storage,
                           lookups |-> Append(c.lookups, <<farm_id, asset_farm>>),
                           ran |-> Append(c.ran, farm_id)]]
    ELSE [result |-> None,
          context |-> [c EXCEPT !.cache = Insert(@, farm_id, None),
                                !.lookups = Append(@, <<farm_id, None>>)]]

\* Mutant of get_asset_farms: a farm id the call has looked up already is
\* passed over.
RECURSIVE get_asset_farms_Distinct(_, _)
get_asset_farms_Distinct(c, farm_ids) ==
    IF farm_ids = << >>
    THEN [result |-> << >>, context |-> c]
    ELSE LET head == internal_get_asset_farm(c, Head(farm_ids))
             again == \E i \in 1..Len(c.lookups) : c.lookups[i][1] = Head(farm_ids)
             rest == get_asset_farms_Distinct(head.context, Tail(farm_ids))
         IN  [result |-> IF head.result = None \/ again
                         THEN rest.result
                         ELSE <<(<<Head(farm_ids), head.result[1]>>)>> \o rest.result,
              context |-> rest.context]

\* Contract::get_asset_farms: filter_map over farm_ids, in order.
RECURSIVE get_asset_farms(_, _)
get_asset_farms(c, farm_ids) ==
    IF farm_ids = << >>
    THEN [result |-> << >>, context |-> c]
    ELSE LET head == internal_get_asset_farm(c, Head(farm_ids))
             rest == get_asset_farms(head.context, Tail(farm_ids))
         IN  [result |-> IF head.result = None
                         THEN rest.result
                         ELSE <<(<<Head(farm_ids), head.result[1]>>)>> \o rest.result,
              context |-> rest.context]

\* The farm ids get_asset_farms_paged pushes for the indices lo .. hi - 1
\* (lines 211-215); index i is keys.get(i), the (i+1)-th element.
RECURSIVE PagedFarmIds(_, _)
PagedFarmIds(lo, hi) ==
    IF lo >= hi
    THEN << >>
    ELSE <<Supplied(asset_ids[lo + 1]), Borrowed(asset_ids[lo + 1])>> \o PagedFarmIds(lo + 1, hi)

\* Mutant of get_asset_farms_paged: the loop runs to the end of the index.
get_asset_farms_paged_NoLimit(c, from_index, limit) ==
    LET keys_len == Len(asset_ids)
        from == IF from_index = None THEN 0 ELSE from_index[1]
    IN  get_asset_farms(c, PagedFarmIds(from, keys_len))

\* Contract::get_asset_farms_paged; from_index and limit are Option<u64>.
get_asset_farms_paged(c, from_index, limit) ==
    LET keys_len == Len(asset_ids)
        from == IF from_index = None THEN 0 ELSE from_index[1]
        lim == IF limit = None THEN keys_len ELSE limit[1]
    IN  get_asset_farms(c, PagedFarmIds(from, Min(keys_len, lim)))

\* The number of times farm_id occurs in the sequence ran.
Count(ran, farm_id) == Cardinality({i \in 1..Len(ran) : ran[i] = farm_id})

\* lastRead after the lookups ls: each farm looked up maps to its last result.
ReadsAfter(ls, prev) ==
    LET hits(f) == {i \in 1..Len(ls) : ls[i][1] = f}
        last(f) == CHOOSE i \in hits(f) : \A j \in hits(f) : j <= i
    IN  [f \in (DOMAIN prev) \cup {ls[i][1] : i \in 1..Len(ls)} |->
            IF hits(f) = {} THEN prev[f] ELSE ls[last(f)][2]]

\* The reward_per_share a snapshot shows for token_id: that of the active
\* reward, or else of the inactive one its handle reads from storage st.
RewardPerShare(asset_farm, st, token_id) ==
    IF token_id \in DOMAIN asset_farm.rewards
    THEN asset_farm.rewards[token_id].reward_per_share
    ELSE internal_get_inactive_asset_farm_reward(asset_farm, st, token_id)[1].reward_per_share

\* The tokens a snapshot has a reward for, active or inactive.
RewardTokens(asset_farm, st) ==
    (DOMAIN asset_farm.rewards) \cup (DOMAIN st[asset_farm.inactive_rewards.prefix])

\* seen after the lookups ls, which left the storage st.
SeenAfter(ls, st, prev) ==
    LET found == {i \in 1..Len(ls) : ls[i][2] # None}
        shown == {<<ls[i][1], t>> : i \in found, t \in TokenIds}
        last(f) == CHOOSE i \in found : ls[i][1] = f /\ \A j \in found : ls[j][1] = f => j <= i
        new == {k \in shown : k[2] \in RewardTokens(ls[last(k[1])][2][1], st)}
    IN  [k \in (DOMAIN prev) \cup new |->
            IF k \in new
            THEN RewardPerShare(ls[last(k[1])][2][1], st, k[2])
            ELSE prev[k]]

\* What a reading call leaves behind: the cache and storage of its context and
\* the history of its lookups.
Read(op, r) ==
    /\ lastOp # "panic"
    /\ cache' = r.context.cache
    /\ storage' = r.context.storage
    /\ lookups' = r.context.lookups
    /\ ret' = r.result
    /\ lastOp' = op
    /\ updates' = [f \in FarmIds |-> updates[f] + Count(r.context.ran, f)]
    /\ lastRead' = ReadsAfter(r.context.lookups, lastRead)
    /\ seen' = SeenAfter(r.context.lookups, r.context.storage, seen)
    /\ UNCHANGED <<now, asset_ids, asset_farms, committed, written, sets, farm, step>>

\* Contract::internal_unwrap_asset_farm: the farm, or the panic of expect.
internal_unwrap_asset_farm(c, farm_id) ==
    LET r == internal_get_asset_farm(c, farm_id)
    IN  IF r.result = None
        THEN [panic |-> "Asset farm not found", context |-> r.context]
        ELSE [result |-> r.result[1], context |-> r.context]

\* Mutant of internal_set_asset_farm: an entry the cache already holds is kept.
internal_set_asset_farm_KeepCache(farm_id, asset_farm) ==
    [cache |-> IF farm_id \in DOMAIN cache
               THEN cache
               ELSE Insert(cache, farm_id, Some(CloneAssetFarm(asset_farm))),
     asset_farms |-> Insert(asset_farms, farm_id, ToVAssetFarm(asset_farm))]

\* Contract::internal_set_asset_farm: the cache and the registry after it.
internal_set_asset_farm(farm_id, asset_farm) ==
    [cache |-> Insert(cache, farm_id, Some(CloneAssetFarm(asset_farm))),
     asset_farms |-> Insert(asset_farms, farm_id, ToVAssetFarm(asset_farm))]

\* The map a new contract instance starts with (Lazy::new HashMap::new()).
ASSET_FARMS == EmptyMap

(***************************************************************************)
(* Callers.                                                                *)
(***************************************************************************)
\* A reward as the farm's owner configures it.
NewReward ==
    [reward_per_day |-> 3, booster_log_base |-> 1, remaining_rewards |-> 2,
     boosted_shares |-> 0, reward_per_share |-> 0]

\* The values the staking side sets boosted_shares to.
BoostedShares == {0, 1, 3}

\* A farm as it is first configured: no rewards, its own inactive map.
NewAssetFarm(farm_id) ==
    [block_timestamp |-> now,
     rewards |-> EmptyMap,
     inactive_rewards |-> LookupMapNew(InactivePrefix(farm_id))]

\* What a writer makes of a snapshot it looked up: new boosted shares for a
\* reward, or a reward for a token that has none.
Mutations(asset_farm) ==
    {[asset_farm EXCEPT !.rewards[t].boosted_shares = n] :
        t \in DOMAIN asset_farm.rewards, n \in BoostedShares}
    \cup {[asset_farm EXCEPT !.rewards = Insert(@, t, NewReward)] :
            t \in {x \in TokenIds \ DOMAIN asset_farm.rewards :
                     x \notin DOMAIN storage[asset_farm.inactive_rewards.prefix]}}

\* The farms writers write.
SetFarmIds == {Supplied("a1"), Borrowed("a1")}

\* The snapshots a writer passes to internal_set_asset_farm for farm_id: a new
\* farm where none is configured, or what it made of the farm it looked up.
SetInputs(farm_id) ==
    (IF farm_id \in DOMAIN asset_farms THEN {} ELSE {NewAssetFarm(farm_id)})
    \cup (IF /\ lastOp \in {"get_asset_farm", "internal_unwrap_asset_farm"}
             /\ lookups[1][1] = farm_id
             /\ ret # None
          THEN Mutations(ret[1])
          ELSE {})

\* The lists handed to get_asset_farms.
GetInputs ==
    {<<Borrowed("a1"), Supplied("a1"), Borrowed("a1")>>,
     <<Supplied("a1"), Borrowed("a1"), Supplied("a1")>>} \cup
    (IF Len(asset_ids) > 1
     THEN {<<Supplied("a2"), Borrowed("a2"), Supplied("a3"), Borrowed("a2")>>}
     ELSE {})

\* The farms of the indexed assets.
IndexedFarmIds ==
    {Supplied(asset_ids[i]) : i \in 1..Len(asset_ids)}
    \cup {Borrowed(asset_ids[i]) : i \in 1..Len(asset_ids)}

\* The arguments handed to get_asset_farms_paged.
PagedInputs == {None} \cup {Some(n) : n \in 0..MaxLimit} \cup {Some(2 * Cardinality(AssetIds))}

(***************************************************************************)
(* The contract's executions.                                              *)
(***************************************************************************)
\* A configured farm with the given active rewards, last updated at tick 0.
ConfiguredFarm(farm_id, rewards) ==
    ToVAssetFarm([block_timestamp |-> 0,
                  rewards |-> rewards,
                  inactive_rewards |-> LookupMapNew(InactivePrefix(farm_id))])

\* A reward that one tick exhausts.
LastReward ==
    [reward_per_day |-> 2, booster_log_base |-> 1, remaining_rewards |-> 1,
     boosted_shares |-> 3, reward_per_share |-> 0]

\* The registry the executions start from: of asset a1 the supplied farm is
\* configured, the borrowed one is not.
InitialFarms ==
    Supplied("a1") :> ConfiguredFarm(Supplied("a1"),
                                     "t1" :> [NewReward EXCEPT !.boosted_shares = 1])

NoFarm == [block_timestamp |-> 0, rewards |-> EmptyMap, inactive_rewards |-> LookupMapNew("none")]

NoStep == [op |-> "none"]

Init ==
    /\ now = 0
    /\ asset_ids = <<"a1">>
    /\ asset_farms = InitialFarms
    /\ storage = [p \in FarmIds |-> EmptyMap]
    /\ committed = [asset_farms |-> asset_farms, storage |-> storage]
    /\ cache = ASSET_FARMS
    /\ ret = None
    /\ lastOp = "new"
    /\ lookups = << >>
    /\ updates = [f \in FarmIds |-> 0]
    /\ written = EmptyMap
    /\ sets = 0
    /\ lastRead = EmptyMap
    /\ seen = EmptyMap
    /\ farm = NoFarm
    /\ step = NoStep

\* Mutant of NewExecution: the host's clock may go back.
NewExecution_ClockBack(block_timestamp) ==
    /\ now' = block_timestamp
    /\ committed' = [asset_farms |-> asset_farms, storage |-> storage]
    /\ cache' = ASSET_FARMS
    /\ ret' = None
    /\ lastOp' = "new"
    /\ lookups' = << >>
    /\ updates' = [f \in FarmIds |-> 0]
    /\ written' = EmptyMap
    /\ lastRead' = EmptyMap
    /\ UNCHANGED <<asset_ids, asset_farms, storage, sets, seen, farm, step>>

\* Mutant of NewExecution: the contract instance, and with it the cache, lives on.
NewExecution_KeepCache(block_timestamp) ==
    /\ block_timestamp >= now
    /\ now' = block_timestamp
    /\ committed' = [asset_farms |-> asset_farms, storage |-> storage]
    /\ cache' = cache
    /\ ret' = None
    /\ lastOp' = "new"
    /\ lookups' = << >>
    /\ updates' = [f \in FarmIds |-> 0]
    /\ written' = EmptyMap
    /\ lastRead' = EmptyMap
    /\ UNCHANGED <<asset_ids, asset_farms, storage, sets, seen, farm, step>>

\* A new execution: the host starts a fresh contract instance at a time not
\* before the last one, on the durable state the last one left.
NewExecution(block_timestamp) ==
    /\ block_timestamp >= now
    /\ now' = block_timestamp
    /\ committed' = [asset_farms |-> asset_farms, storage |-> storage]
    /\ cache' = ASSET_FARMS
    /\ ret' = None
    /\ lastOp' = "new"
    /\ lookups' = << >>
    /\ updates' = [f \in FarmIds |-> 0]
    /\ written' = EmptyMap
    /\ lastRead' = EmptyMap
    /\ UNCHANGED <<asset_ids, asset_farms, storage, sets, seen, farm, step>>

GetAssetFarm(farm_id) ==
    Read("get_asset_farm",
         internal_get_asset_farm(Context, farm_id))

GetAssetFarms(farm_ids) ==
    Read("get_asset_farms",
         get_asset_farms(Context, farm_ids))

GetAssetFarmsPaged(from_index, limit) ==
    Read("get_asset_farms_paged",
         get_asset_farms_paged(Context, from_index, limit))

\* Mutant of Abort: what the execution wrote to the durable state stays.
Abort_NoRollback(op, c) ==
    /\ lastOp # "panic"
    /\ lastOp' = "panic"
    /\ storage' = c.storage
    /\ cache' = c.cache
    /\ lookups' = c.lookups
    /\ ret' = None
    /\ updates' = [f \in FarmIds |-> updates[f] + Count(c.ran, f)]
    /\ written' = EmptyMap
    /\ lastRead' = EmptyMap
    /\ UNCHANGED <<now, asset_ids, asset_farms, committed, sets, seen, farm, step>>

\* A panic ends the execution: the host drops what the execution wrote to the
\* durable state, and the history of the execution's writes and lookups ends.
\* c is the context the panicking call had reached.
Abort(op, c) ==
    /\ lastOp # "panic"
    /\ lastOp' = "panic"
    /\ asset_farms' = committed.asset_farms
    /\ storage' = committed.storage
    /\ cache' = c.cache
    /\ lookups' = c.lookups
    /\ ret' = None
    /\ updates' = [f \in FarmIds |-> updates[f] + Count(c.ran, f)]
    /\ written' = EmptyMap
    /\ lastRead' = EmptyMap
    /\ UNCHANGED <<now, asset_ids, committed, sets, seen, farm, step>>

InternalUnwrapAssetFarm(farm_id) ==
    LET r == internal_unwrap_asset_farm(Context, farm_id)
    IN  IF "panic" \in DOMAIN r
        THEN Abort("internal_unwrap_asset_farm", r.context)
        ELSE Read("internal_unwrap_asset_farm", [result |-> Some(r.result), context |-> r.context])

InternalSetAssetFarm(farm_id, asset_farm) ==
    LET r == internal_set_asset_farm(farm_id, asset_farm)
    IN  /\ lastOp # "panic"
        /\ sets < MaxSets
        /\ sets' = sets + 1
        /\ cache' = r.cache
        /\ asset_farms' = r.asset_farms
        /\ ret' = None
        /\ lastOp' = "internal_set_asset_farm"
        /\ lookups' = << >>
        /\ written' = Insert(written, farm_id, asset_farm)
        /\ lastRead' = Remove(lastRead, farm_id)
        /\ UNCHANGED <<now, asset_ids, storage, committed, updates, seen, farm, step>>

Next ==
    \/ \E t \in 0..MaxTime : NewExecution(t)
    \/ \E f \in IndexedFarmIds : GetAssetFarm(f)
    \/ \E f \in IndexedFarmIds : InternalUnwrapAssetFarm(f)
    \/ \E ids \in GetInputs : GetAssetFarms(ids)
    \/ \E i \in PagedInputs, l \in PagedInputs : GetAssetFarmsPaged(i, l)
    \/ \E f \in SetFarmIds : \E s \in SetInputs(f) : InternalSetAssetFarm(f, s)

Spec == Init /\ [][Next]_vars

(***************************************************************************)
(* A caller holds the snapshot that get_asset_farm returned (ret), changes  *)
(* it, and may write it back with internal_set_asset_farm.                 *)
(***************************************************************************)
\* The calls after which the caller holds a snapshot of the farm lookups[1][1].
SnapshotOps ==
    {"edit_rewards",
     "internal_set_inactive_asset_farm_reward",
     "internal_remove_inactive_asset_farm_reward"}

\* The caller holds a snapshot it has not changed yet; it makes one change to
\* a snapshot, and then writes it back or looks the farm up again.
HoldsSnapshot == lastOp = "get_asset_farm" /\ ret # None

\* The caller edits the active rewards of the snapshot it holds.
EditRewards(asset_farm) ==
    /\ HoldsSnapshot
    /\ asset_farm \in Mutations(ret[1])
    /\ ret' = Some(asset_farm)
    /\ lastOp' = "edit_rewards"
    /\ UNCHANGED <<now, asset_ids, asset_farms, storage, committed, cache, lookups,
                   updates, written, sets, lastRead, seen, farm, step>>

\* The caller calls internal_set_inactive_asset_farm_reward on the snapshot it
\* holds.
SetInactiveAssetFarmReward(token_id, asset_farm_reward) ==
    /\ HoldsSnapshot
    /\ storage' = internal_set_inactive_asset_farm_reward(ret[1], storage, token_id,
                                                          asset_farm_reward)
    /\ lastOp' = "internal_set_inactive_asset_farm_reward"
    /\ UNCHANGED <<now, asset_ids, asset_farms, committed, cache, ret, lookups,
                   updates, written, sets, lastRead, seen, farm, step>>

\* The caller calls internal_remove_inactive_asset_farm_reward on the snapshot
\* it holds.
RemoveInactiveAssetFarmReward(token_id) ==
    /\ HoldsSnapshot
    /\ storage' = internal_remove_inactive_asset_farm_reward(ret[1], storage, token_id)
    /\ lastOp' = "internal_remove_inactive_asset_farm_reward"
    /\ UNCHANGED <<now, asset_ids, asset_farms, committed, cache, ret, lookups,
                   updates, written, sets, lastRead, seen, farm, step>>

\* The caller writes the snapshot it holds back.
SetHeldAssetFarm ==
    /\ lastOp \in SnapshotOps
    /\ InternalSetAssetFarm(lookups[1][1], ret[1])

NextSnapshot ==
    \/ \E t \in 0..MaxTime : NewExecution(t)
    \/ \E f \in IndexedFarmIds : GetAssetFarm(f)
    \/ \E s \in (IF HoldsSnapshot THEN Mutations(ret[1]) ELSE {}) : EditRewards(s)
    \/ \E t \in TokenIds : SetInactiveAssetFarmReward(t, [LastReward EXCEPT !.remaining_rewards = 0])
    \/ \E t \in TokenIds : RemoveInactiveAssetFarmReward(t)
    \/ SetHeldAssetFarm

SpecSnapshot == Init /\ [][NextSnapshot]_vars

(***************************************************************************)
(* The views over an index of three assets, read by executions that write  *)
(* nothing.                                                                *)
(***************************************************************************)
InitPaged ==
    /\ now = 0
    /\ asset_ids = <<"a1", "a2", "a3">>
    /\ asset_farms = InitialFarms
                       @@ (Borrowed("a2") :> ConfiguredFarm(Borrowed("a2"), "t2" :> LastReward))
                       @@ (Supplied("a3") :> ConfiguredFarm(Supplied("a3"), EmptyMap))
                       @@ (Borrowed("a3") :> ConfiguredFarm(Borrowed("a3"), "t1" :> NewReward))
    /\ storage = [p \in FarmIds |-> EmptyMap]
    /\ committed = [asset_farms |-> asset_farms, storage |-> storage]
    /\ cache = ASSET_FARMS
    /\ ret = None
    /\ lastOp = "new"
    /\ lookups = << >>
    /\ updates = [f \in FarmIds |-> 0]
    /\ written = EmptyMap
    /\ sets = 0
    /\ lastRead = EmptyMap
    /\ seen = EmptyMap
    /\ farm = NoFarm
    /\ step = NoStep

NextPaged ==
    \/ \E t \in 0..MaxTime : NewExecution(t)
    \/ \E f \in IndexedFarmIds : GetAssetFarm(f)
    \/ \E f \in IndexedFarmIds : InternalUnwrapAssetFarm(f)
    \/ \E ids \in GetInputs : GetAssetFarms(ids)
    \/ \E i \in PagedInputs, l \in PagedInputs : GetAssetFarmsPaged(i, l)

SpecPaged == InitPaged /\ [][NextPaged]_vars

(***************************************************************************)
(* The accrual on its own: one snapshot, advanced by update at the times   *)
(* the clock takes, while the staking side changes boosted shares.         *)
(***************************************************************************)
\* The rewards a snapshot under test starts with.
RewardInputs ==
    [reward_per_day : {1, 3}, booster_log_base : {1}, remaining_rewards : {0, 2, 4},
     boosted_shares : BoostedShares, reward_per_share : {0}]

\* Two rewards with token-sized amounts: 8_640_000 per day over 1_000_000
\* boosted shares, with two days' budget left, and with less than one day's.
ExampleRewards ==
    {[reward_per_day |-> 8640000, booster_log_base |-> 1, remaining_rewards |-> r,
      boosted_shares |-> 1000000, reward_per_share |-> 0] : r \in {17280000, 5000000}}

\* The active rewards a snapshot under test starts with.
FarmRewardInputs ==
    UNION {[tokens -> RewardInputs] : tokens \in SUBSET TokenIds}
    \cup {"t1" :> r : r \in ExampleRewards}

\* The farm whose inactive map the snapshot under test writes.
TestFarmId == Supplied("a1")

\* What update acquires for each active reward of self over time_diff.
Acquired(self, time_diff) ==
    [t \in DOMAIN self.rewards |->
        IF self.rewards[t].boosted_shares = 0 \/ time_diff = 0
        THEN 0
        ELSE AcquiredRewards(self.rewards[t], time_diff)]

InitUpdate ==
    /\ now = 0
    /\ asset_ids = << >>
    /\ asset_farms = EmptyMap
    /\ storage = [p \in FarmIds |-> EmptyMap]
    /\ committed = [asset_farms |-> asset_farms, storage |-> storage]
    /\ cache = ASSET_FARMS
    /\ ret = None
    /\ lastOp = "new"
    /\ lookups = << >>
    /\ updates = [f \in FarmIds |-> 0]
    /\ written = EmptyMap
    /\ sets = 0
    /\ lastRead = EmptyMap
    /\ seen = EmptyMap
    /\ \E rewards \in FarmRewardInputs :
          /\ farm = [block_timestamp |-> 0,
                     rewards |-> rewards,
                     inactive_rewards |-> LookupMapNew(InactivePrefix(TestFarmId))]
          /\ step = [op |-> "none",
                     original |-> [t \in DOMAIN rewards |-> rewards[t].remaining_rewards],
                     total |-> [t \in DOMAIN rewards |-> 0]]

\* The clock reaches block_timestamp and update runs on the snapshot.
Update(block_timestamp) ==
    /\ block_timestamp >= now
    /\ now' = block_timestamp
    /\ LET u == update(farm, storage, block_timestamp)
           acquired == Acquired(farm, block_timestamp - farm.block_timestamp)
       IN  /\ farm' = u.farm
           /\ storage' = u.storage
           /\ step' = [op |-> "update",
                       before |-> farm,
                       acquired |-> acquired,
                       original |-> step.original,
                       total |-> [t \in DOMAIN step.total |->
                                    IF t \in DOMAIN acquired
                                    THEN step.total[t] + acquired[t]
                                    ELSE step.total[t]]]
    /\ UNCHANGED <<asset_ids, asset_farms, committed, cache, ret, lastOp, lookups,
                   updates, written, sets, lastRead, seen>>

\* update runs at a time before the snapshot's block_timestamp (the clock went
\* back).  The subtraction of line 81 overflows: a build with overflow checks
\* panics there, before anything is assigned; a build without them goes on
\* with the wrapped difference.
UpdateBehind(block_timestamp, overflow_checks) ==
    /\ SubOverflows(block_timestamp, farm.block_timestamp)
    /\ IF overflow_checks
       THEN /\ step' = [op |-> "panic",
                        before |-> farm,
                        original |-> step.original,
                        total |-> step.total]
            /\ UNCHANGED <<now, farm, storage>>
       ELSE LET u == update(farm, storage, block_timestamp)
                acquired == Acquired(farm, WrappingSub(block_timestamp, farm.block_timestamp))
            IN  /\ now' = block_timestamp
                /\ farm' = u.farm
                /\ storage' = u.storage
                /\ step' = [op |-> "update",
                            before |-> farm,
                            acquired |-> acquired,
                            original |-> step.original,
                            total |-> [t \in DOMAIN step.total |->
                                         IF t \in DOMAIN acquired
                                         THEN step.total[t] + acquired[t]
                                         ELSE step.total[t]]]
    /\ UNCHANGED <<asset_ids, asset_farms, committed, cache, ret, lastOp, lookups,
                   updates, written, sets, lastRead, seen>>

\* The staking side sets the boosted shares of an active reward.
SetBoostedShares(token_id, boosted_shares) ==
    /\ token_id \in DOMAIN farm.rewards
    /\ farm.rewards[token_id].boosted_shares # boosted_shares
    /\ farm' = [farm EXCEPT !.rewards[token_id].boosted_shares = boosted_shares]
    /\ step' = [op |-> "shares", original |-> step.original, total |-> step.total]
    /\ UNCHANGED <<now, asset_ids, asset_farms, storage, committed, cache, ret, lastOp,
                   lookups, updates, written, sets, lastRead, seen>>

NextUpdate ==
    \/ \E t \in 0..MaxTime : Update(t)
    \/ \E t \in 0..MaxTime, overflow_checks \in BOOLEAN : UpdateBehind(t, overflow_checks)
    \/ \E t \in TokenIds, n \in BoostedShares : SetBoostedShares(t, n)

SpecUpdate == InitUpdate /\ [][NextUpdate]_vars

(***************************************************************************)
(* Properties of the accrual (SpecUpdate).                                 *)
(***************************************************************************)
\* The inactive rewards of the snapshot under test, as stored.
Inactive == storage[farm.inactive_rewards.prefix]

\* The last step was an update over a positive time.
Accrued == step.op = "update" /\ step.before.block_timestamp < farm.block_timestamp

\* The record of token t after the last step: active, or else inactive.
After(t) ==
    IF t \in DOMAIN farm.rewards
    THEN farm.rewards[t]
    ELSE FromVAssetFarmReward(Inactive[t])

\* C3: conservation.  Each step of update acquires, for each reward, at most
\* the remaining_rewards the reward had before the step; the amounts acquired
\* for a reward over all steps never sum to more than its original
\* remaining_rewards, what is left is the original less that sum, and the sum
\* is the original once the reward is retired with remaining_rewards = 0.
C3_Conservation ==
    /\ step.op = "update" =>
          \A t \in DOMAIN step.acquired :
              step.acquired[t] <= step.before.rewards[t].remaining_rewards
    /\ \A t \in DOMAIN step.total :
          /\ step.total[t] <= step.original[t]
          /\ After(t).remaining_rewards = step.original[t] - step.total[t]
          /\ (t \in DOMAIN Inactive /\ After(t).remaining_rewards = 0)
                => step.total[t] = step.original[t]

\* C3 witness: a reward with a positive budget has been retired after more
\* than one acquiring step.
C3_Witness ==
    /\ step.op = "update"
    /\ \E t \in DOMAIN step.acquired :
          /\ t \in DOMAIN Inactive
          /\ step.original[t] > 0
          /\ 0 < step.acquired[t]
          /\ step.acquired[t] < step.original[t]
          /\ step.total[t] = step.original[t]

\* C4: retirement.  When an update over a positive time leaves a reward with
\* boosted shares no remaining_rewards, the snapshot the same step produces
\* has the token out of the active map and in the inactive map, there with
\* remaining_rewards = 0 and the boosted_shares, booster_log_base and
\* reward_per_day it had as an active reward.
C4_Retirement ==
    Accrued =>
        \A t \in DOMAIN step.before.rewards :
            LET b == step.before.rewards[t]
            IN  (b.boosted_shares # 0 /\ b.remaining_rewards - step.acquired[t] = 0)
                    => /\ t \notin DOMAIN farm.rewards
                       /\ t \in DOMAIN Inactive
                       /\ After(t).remaining_rewards = 0
                       /\ After(t).boosted_shares = b.boosted_shares
                       /\ After(t).booster_log_base = b.booster_log_base
                       /\ After(t).reward_per_day = b.reward_per_day

\* C4 witness: one step has retired two rewards that had budget left, one of
\* them by the clamp to remaining_rewards.
C4_Witness ==
    /\ Accrued
    /\ \A t \in TokenIds :
          /\ t \in DOMAIN step.before.rewards
          /\ step.before.rewards[t].remaining_rewards > 0
          /\ t \notin DOMAIN farm.rewards
          /\ t \in DOMAIN Inactive
    /\ \E t \in TokenIds :
          step.acquired[t] < u128_ratio(step.before.rewards[t].reward_per_day,
                                        farm.block_timestamp - step.before.block_timestamp,
                                        NANOS_PER_DAY)

\* C6: zero-share freeze.  An update, over whatever time, leaves every active
\* reward that has boosted_shares = 0 in the active map with its
\* remaining_rewards and reward_per_share unchanged.
C6_ZeroShareFreeze ==
    step.op = "update" =>
        \A t \in DOMAIN step.before.rewards :
            step.before.rewards[t].boosted_shares = 0
                => /\ t \in DOMAIN farm.rewards
                   /\ farm.rewards[t].remaining_rewards = step.before.rewards[t].remaining_rewards
                   /\ farm.rewards[t].reward_per_share = step.before.rewards[t].reward_per_share

\* C6 witness: time has passed over a reward with budget, a rate and no
\* shares, while another reward of the farm accrued.
C6_Witness ==
    /\ Accrued
    /\ \E t \in DOMAIN step.before.rewards :
          /\ step.before.rewards[t].boosted_shares = 0
          /\ step.before.rewards[t].remaining_rewards > 0
          /\ step.before.rewards[t].reward_per_day > 0
    /\ \E t \in DOMAIN step.acquired : step.acquired[t] > 0

\* C7: idempotence.  After update has run with the time now, running it again
\* with the same now changes neither the snapshot nor its inactive map; and
\* update with the snapshot's own block_timestamp changes nothing.
C7_Idempotent ==
    /\ step.op = "update" =>
          update(farm, storage, now) = [farm |-> farm, storage |-> storage]
    /\ update(farm, storage, farm.block_timestamp) = [farm |-> farm, storage |-> storage]

\* C7 witness: update has run a second time at the same now on a snapshot that
\* still has a reward with shares and budget, and at a time after the start.
C7_Witness ==
    /\ step.op = "update"
    /\ step.before.block_timestamp = now
    /\ now > 0
    /\ \E t \in DOMAIN farm.rewards :
          /\ farm.rewards[t].boosted_shares # 0
          /\ farm.rewards[t].remaining_rewards > 0

C19_AccrualFormula ==
    Accrued =>
        \A t \in DOMAIN step.before.rewards :
            LET b == step.before.rewards[t]
                dt == farm.block_timestamp - step.before.block_timestamp
                budget == (b.reward_per_day * dt) \div NANOS_PER_DAY
                acquired == IF b.remaining_rewards < budget THEN b.remaining_rewards ELSE budget
                example == /\ b.reward_per_day = 8640000
                           /\ b.boosted_shares = 1000000
                           /\ dt = NANOS_PER_DAY
            IN  b.boosted_shares > 0 =>
                    /\ step.acquired[t] = acquired
                    /\ After(t).remaining_rewards = b.remaining_rewards - acquired
                    /\ After(t).reward_per_share
                          = b.reward_per_share + (acquired * BIG_DIVISOR) \div b.boosted_shares
                    /\ (example /\ b.remaining_rewards = 17280000)
                          => (step.acquired[t] = 8640000 /\ After(t).remaining_rewards = 8640000)
                    /\ (example /\ b.remaining_rewards = 5000000)
                          => (step.acquired[t] = 5000000 /\ After(t).remaining_rewards = 0)

\* C19 witness: one day has passed over the reward of 8_640_000 per day that
\* had 5_000_000 left; the step acquired the 5_000_000 and retired it.
C19_Witness ==
    /\ Accrued
    /\ farm.block_timestamp - step.before.block_timestamp = NANOS_PER_DAY
    /\ "t1" \in DOMAIN step.before.rewards
    /\ step.before.rewards["t1"].reward_per_day = 8640000
    /\ step.before.rewards["t1"].boosted_shares = 1000000
    /\ step.before.rewards["t1"].remaining_rewards = 5000000
    /\ step.acquired["t1"] = 5000000
    /\ "t1" \in DOMAIN Inactive

\* C19 witness of the unclamped case: one day has passed over the same reward
\* with 17_280_000 left; the step acquired 8_640_000 and 8_640_000 are left.
C19_WitnessBudget ==
    /\ Accrued
    /\ farm.block_timestamp - step.before.block_timestamp = NANOS_PER_DAY
    /\ "t1" \in DOMAIN farm.rewards
    /\ step.before.rewards["t1"].remaining_rewards = 17280000
    /\ step.acquired["t1"] = 8640000
    /\ farm.rewards["t1"].remaining_rewards = 8640000
    /\ farm.rewards["t1"].reward_per_share > 0

\* The remaining_rewards of token t in the outcome u of update: of the
\* active reward, or else of the inactive one.
RemainingAfter(u, t) ==
    IF t \in DOMAIN u.farm.rewards
    THEN u.farm.rewards[t].remaining_rewards
    ELSE internal_get_inactive_asset_farm_reward(u.farm, u.storage, t)[1].remaining_rewards

\* C20: the timestamp always advances.  After an update that completed at the
\* time now the snapshot's block_timestamp is now, whatever rewards it has.
\* Hence, for a reward with boosted_shares = 0: an update at a time t1 stamps
\* the snapshot with t1 and leaves the reward as it is, and when the reward
\* then gets shares, an update at t2 >= t1 pays it for t2 - t1 only: time
\* that passed without shares is not paid later.
C20_TimestampAdvances ==
    /\ step.op = "update" => farm.block_timestamp = now
    /\ \A t \in DOMAIN farm.rewards :
          farm.rewards[t].boosted_shares = 0 =>
              \A t1 \in farm.block_timestamp..MaxTime :
                  LET u1 == update(farm, storage, t1)
                  IN  /\ u1.farm.block_timestamp = t1
                      /\ t \in DOMAIN u1.farm.rewards
                      /\ u1.farm.rewards[t] = farm.rewards[t]
                      /\ \A t2 \in t1..MaxTime, n \in BoostedShares \ {0} :
                            LET staked == [u1.farm EXCEPT !.rewards[t].boosted_shares = n]
                                u2 == update(staked, u1.storage, t2)
                                budget == (farm.rewards[t].reward_per_day * (t2 - t1))
                                              \div NANOS_PER_DAY
                            IN  farm.rewards[t].remaining_rewards - RemainingAfter(u2, t)
                                    = IF farm.rewards[t].remaining_rewards < budget
                                      THEN farm.rewards[t].remaining_rewards
                                      ELSE budget

\* C20 witness: a reward was first paid by an update that followed an update
\* at a time after the start, so it had no shares until then; it was paid
\* for the time since that update only, though it had budget for all the
\* time since the start.
C20_Witness ==
    /\ Accrued
    /\ step.before.block_timestamp > 0
    /\ \E t \in DOMAIN step.acquired :
          /\ step.acquired[t] > 0
          /\ step.total[t] = step.acquired[t]
          /\ step.acquired[t] < (step.before.rewards[t].reward_per_day * now) \div NANOS_PER_DAY
          /\ step.before.rewards[t].remaining_rewards
                >= (step.before.rewards[t].reward_per_day * now) \div NANOS_PER_DAY

\* C21: no exhausted reward stays active.  After an update over a positive
\* time, every reward left in the active map with boosted_shares > 0 has
\* remaining_rewards > 0; a reward with remaining_rewards = 0 is in the
\* active map only with boosted_shares = 0.
C21_NoExhaustedActive ==
    Accrued =>
        \A t \in DOMAIN farm.rewards :
            farm.rewards[t].boosted_shares > 0 => farm.rewards[t].remaining_rewards > 0

\* C21 witness: one step has paid a reward that stays active with budget
\* left, and has retired a reward with shares that had nothing left before
\* the step.
C21_Witness ==
    /\ Accrued
    /\ \E t \in DOMAIN farm.rewards :
          /\ farm.rewards[t].boosted_shares > 0
          /\ farm.rewards[t].remaining_rewards > 0
          /\ step.acquired[t] > 0
    /\ \E t \in DOMAIN step.before.rewards :
          /\ step.before.rewards[t].boosted_shares > 0
          /\ step.before.rewards[t].remaining_rewards = 0
          /\ t \notin DOMAIN farm.rewards
          /\ t \in DOMAIN Inactive

\* C22: splitting an interval pays no more.  For an active reward with
\* boosted_shares > 0 and times t0 <= t1 <= t2, t0 the snapshot's
\* block_timestamp: update at t1 followed by update at t2 acquires in total
\* at most what one update at t2 acquires, and leaves at least the
\* remaining_rewards that one leaves; both leave block_timestamp = t2.
C22_SplitInterval ==
    \A t \in DOMAIN farm.rewards :
        farm.rewards[t].boosted_shares > 0 =>
            \A t1 \in farm.block_timestamp..MaxTime :
                \A t2 \in t1..MaxTime :
                    LET once == update(farm, storage, t2)
                        first == update(farm, storage, t1)
                        twice == update(first.farm, first.storage, t2)
                        remaining == farm.rewards[t].remaining_rewards
                    IN  /\ remaining - RemainingAfter(twice, t)
                              <= remaining - RemainingAfter(once, t)
                        /\ RemainingAfter(twice, t) >= RemainingAfter(once, t)
                        /\ twice.farm.block_timestamp = once.farm.block_timestamp

\* C22 witness: a reward was paid by two updates in a row, each over a
\* positive time from the start on, and got in total less than the budget of
\* the whole time, which its original remaining_rewards covered.
C22_Witness ==
    /\ Accrued
    /\ step.before.block_timestamp > 0
    /\ \E t \in DOMAIN step.acquired :
          LET reward_per_day == step.before.rewards[t].reward_per_day
              first == (reward_per_day * step.before.block_timestamp) \div NANOS_PER_DAY
              whole == (reward_per_day * now) \div NANOS_PER_DAY
          IN  /\ first > 0
              /\ step.acquired[t] > 0
              /\ step.total[t] = first + step.acquired[t]
              /\ step.total[t] < whole
              /\ whole <= step.original[t]

(***************************************************************************)
(* Properties of the cache and the registry (Spec).                        *)
(***************************************************************************)
\* C1: at most one accrual.  In one execution update runs at most once for any
\* farm, however many lookups of get_asset_farm, get_asset_farms and
\* get_asset_farms_paged touch it.
C1_AtMostOnce == \A f \in FarmIds : updates[f] <= 1

\* C1 witness: one call has looked a configured farm up twice, in an execution
\* that has also written, and update has run once for it.
C1_Witness ==
    /\ lastOp = "get_asset_farms"
    /\ DOMAIN written # {}
    /\ \E i, j \in 1..Len(lookups) :
          /\ i < j
          /\ lookups[i][1] = lookups[j][1]
          /\ lookups[i][2] # None
          /\ updates[lookups[i][1]] = 1

\* C2: read your writes.  Once internal_set_asset_farm(farm_id, s) has run in
\* an execution, the registry's record of farm_id is s and every later lookup
\* of farm_id in the execution returns s.
C2_ReadYourWrites ==
    \A f \in DOMAIN written :
        /\ asset_farms[f] = ToVAssetFarm(written[f])
        /\ f \in DOMAIN lastRead => lastRead[f] = Some(written[f])

\* C2 witness: a farm was looked up and cached, then written with other
\* boosted shares, then looked up again.
C2_Witness ==
    \E f \in DOMAIN written :
        /\ f \in DOMAIN lastRead
        /\ updates[f] = 1
        /\ \E t \in DOMAIN written[f].rewards :
              written[f].rewards[t].boosted_shares = 3

\* C2 witness of the other cases: a farm that was not configured was looked
\* up (the cache held None), then written and looked up again.
C2_WitnessNone ==
    \E f \in DOMAIN written :
        /\ f \in DOMAIN lastRead
        /\ updates[f] = 0
        /\ written[f].rewards = EmptyMap

\* C5: monotonic accumulator.  For a farm and a reward token, the
\* reward_per_share a lookup shows is never below the one an earlier lookup
\* showed, in the same execution or an earlier one.
C5_Monotonic ==
    [][\A k \in (DOMAIN seen) \cap (DOMAIN seen') : seen'[k] >= seen[k]]_vars

\* C5 witness: a record written with a positive reward_per_share by an earlier
\* execution has been loaded and accrued further, after its boosted shares
\* were changed.
C5_Witness ==
    \E f \in (DOMAIN lastRead) \ (DOMAIN written) :
        /\ f \in DOMAIN asset_farms
        /\ \E t \in DOMAIN FromVAssetFarm(asset_farms[f]).rewards :
              LET r == FromVAssetFarm(asset_farms[f]).rewards[t]
              IN  /\ r.reward_per_share > 0
                  /\ r.boosted_shares = 3
                  /\ RewardPerShare(lastRead[f][1], storage, t) > r.reward_per_share

EarlierLookups(ls, i) == {j \in 1..(i - 1) : ls[j][1] = ls[i][1]}

\* C10: repeated reads agree.  In one execution, a lookup of a farm returns
\* what the lookup of that farm before it returned, when
\* internal_set_asset_farm has not run for the farm in between.
C10_RepeatedReads ==
    [][\A i \in 1..Len(lookups') :
          IF EarlierLookups(lookups', i) # {}
          THEN \A j \in EarlierLookups(lookups', i) : lookups'[i][2] = lookups'[j][2]
          ELSE lookups'[i][1] \in DOMAIN lastRead
                  => lookups'[i][2] = lastRead[lookups'[i][1]]]_vars

\* C10 witness: one call has looked up twice a farm whose reward the first
\* lookup retired.
C10_Witness ==
    /\ lastOp = "get_asset_farms"
    /\ \E i, j \in 1..Len(lookups) :
          /\ i < j
          /\ lookups[i][1] = lookups[j][1]
          /\ lookups[i][2] # None
          /\ lookups[i][2][1].block_timestamp > 0
          /\ DOMAIN storage[lookups[i][2][1].inactive_rewards.prefix] # {}

\* C11 as stated: a failed internal_unwrap_asset_farm leaves the cache as it
\* was before the call, and the durable registry and storage as the
\* execution found them.
C11_NoPartialState ==
    [][lastOp' = "panic" =>
          /\ cache' = cache
          /\ asset_farms' = committed.asset_farms
          /\ storage' = committed.storage]_vars

\* C11: abort of internal_unwrap_asset_farm.  The call panics exactly on a
\* farm id for which the lookup gives None; the lookup itself writes nothing
\* durable, the panic leaves the durable registry and storage as the
\* execution found them, and the cache differs from the one before the call
\* in at most the entry farm_id -> None that the lookup inserted.
C11_AbortState ==
    [][lastOp' = "panic" =>
          \E f \in IndexedFarmIds :
              /\ f \notin DOMAIN asset_farms
              /\ internal_get_asset_farm(Context, f).result = None
              /\ internal_get_asset_farm(Context, f).context.storage = storage
              /\ cache' = Insert(cache, f, None)
              /\ asset_farms' = committed.asset_farms
              /\ storage' = committed.storage]_vars

\* C11 witness: the call panicked in an execution that had written a farm;
\* the cache holds the written snapshot next to the None of the failed
\* lookup, and the registry holds the record from before the execution.
C11_Witness ==
    /\ lastOp = "panic"
    /\ \E f \in DOMAIN cache : cache[f] = None
    /\ \E f \in DOMAIN cache :
          /\ cache[f] # None
          /\ f \in DOMAIN asset_farms
          /\ \E t \in DOMAIN cache[f][1].rewards :
                /\ t \in DOMAIN FromVAssetFarm(asset_farms[f]).rewards
                /\ cache[f][1].rewards[t].boosted_shares
                      # FromVAssetFarm(asset_farms[f]).rewards[t].boosted_shares

\* C13: get_asset_farms.  The call looks up each position of farm_ids once,
\* in order; its result has, in that order, one pair for each position whose
\* farm id has a record, the pair being the farm id with the snapshot that
\* get_asset_farm of that id returns in the same execution, and nothing for
\* the other positions.
C13_GetMany ==
    lastOp = "get_asset_farms" =>
        LET farm_ids == [i \in 1..Len(lookups) |-> lookups[i][1]]
            found == SelectSeq(farm_ids, LAMBDA f : f \in DOMAIN asset_farms)
        IN  /\ farm_ids \in GetInputs
            /\ Len(ret) = Len(found)
            /\ \A k \in 1..Len(ret) :
                  /\ ret[k][1] = found[k]
                  /\ internal_get_asset_farm(Context, found[k]).result = Some(ret[k][2])

\* C13 witness: of three positions the call returned two pairs, both for the
\* same farm, and dropped the position of a farm that has no record.
C13_Witness ==
    /\ lastOp = "get_asset_farms"
    /\ Len(lookups) = 3
    /\ Len(ret) = 2
    /\ ret[1][1] = ret[2][1]
    /\ lookups[2][2] = None
    /\ ret[1][2].block_timestamp > 0


(***************************************************************************)
\* C15: reads do not write.  While an execution has not called
\* internal_set_asset_farm, the durable registry and the durable storage, the
\* inactive rewards included, are as the execution found them.
C15_ReadsDoNotWrite ==
    DOMAIN written = {} =>
        /\ asset_farms = committed.asset_farms
        /\ storage = committed.storage

\* The tokens that are both an active reward of asset_farm and, in storage,
\* an inactive reward of it.
ActiveAndInactive(asset_farm) ==
    (DOMAIN asset_farm.rewards) \cap (DOMAIN storage[asset_farm.inactive_rewards.prefix])

\* C16: active and inactive are disjoint.  No token is a key of both the
\* active rewards and the inactive rewards of a farm, in the durable record
\* of the farm and in its cached snapshot.
C16_Disjoint ==
    /\ \A f \in DOMAIN asset_farms :
          ActiveAndInactive(FromVAssetFarm(asset_farms[f])) = {}
    /\ \A f \in DOMAIN cache :
          cache[f] # None => ActiveAndInactive(cache[f][1]) = {}

\* The block_timestamp of a registry record.
TimestampOf(v) == FromVAssetFarm(v).block_timestamp

\* C18: timestamp monotonicity.  With a clock that does not go back and
\* writers that set what they looked up, the block_timestamp of a farm never
\* decreases in a step: not in the registry record (a panic discards the
\* execution's writes, so there the record goes back to the committed one,
\* and the committed record never decreases either), and not in the cache
\* entry, as long as the cache holds one.
C18_TimestampMonotonic ==
    [][/\ lastOp' # "panic" =>
             \A f \in (DOMAIN asset_farms) \cap (DOMAIN asset_farms') :
                 TimestampOf(asset_farms'[f]) >= TimestampOf(asset_farms[f])
       /\ \A f \in (DOMAIN committed.asset_farms) \cap (DOMAIN committed'.asset_farms) :
             TimestampOf(committed'.asset_farms[f]) >= TimestampOf(committed.asset_farms[f])
       /\ \A f \in (DOMAIN cache) \cap (DOMAIN cache') :
             (cache[f] # None /\ cache'[f] # None)
                 => cache'[f][1].block_timestamp >= cache[f][1].block_timestamp]_vars

\* C18 witness: an execution has written, at the latest time, a farm that an
\* earlier execution had written at an earlier time after the start.
C18_Witness ==
    \E f \in (DOMAIN written) \cap (DOMAIN committed.asset_farms) :
        /\ TimestampOf(committed.asset_farms[f]) > 0
        /\ TimestampOf(asset_farms[f]) > TimestampOf(committed.asset_farms[f])
        /\ cache[f][1].block_timestamp = now

(***************************************************************************)
(* Properties of the snapshot a caller holds (SpecSnapshot).               *)
(***************************************************************************)
\* What a snapshot shows: its fields, and the inactive rewards that
\* internal_get_inactive_asset_farm_reward reads for it from storage st.
Contents(asset_farm, st) ==
    [block_timestamp |-> asset_farm.block_timestamp,
     rewards |-> asset_farm.rewards,
     inactive_rewards |->
         [t \in DOMAIN st[asset_farm.inactive_rewards.prefix] |->
             internal_get_inactive_asset_farm_reward(asset_farm, st, t)[1]]]

\* C17: snapshot isolation.  When the caller changes the snapshot that
\* get_asset_farm returned (edits its active rewards, or sets or removes an
\* inactive reward on it) and has not written it back, the cached entry of
\* the farm shows what it showed before, and so does the snapshot a further
\* get_asset_farm of the farm returns.
C17_SnapshotIsolation ==
    [][lastOp' \in SnapshotOps =>
          LET f == lookups[1][1]
              before == internal_get_asset_farm(Context, f).result
              after == internal_get_asset_farm(
                           [cache |-> cache', storage |-> storage',
                            lookups |-> << >>, ran |-> << >>], f).result
          IN  /\ Contents(cache'[f][1], storage') = Contents(cache[f][1], storage)
              /\ Contents(after[1], storage') = Contents(before[1], storage)]_vars

(***************************************************************************)
(* Properties of the paged view (SpecPaged).                               *)
(***************************************************************************)
\* The index in asset_ids (from 0) of the underlying asset of a farm id.
AssetIndex(farm_id) == CHOOSE i \in 0..(Len(asset_ids) - 1) : asset_ids[i + 1] = farm_id[2]

\* C14: page bound.  For every from_index and limit (a missing limit being
\* the length of the index), get_asset_farms_paged returns at most 2 * limit
\* pairs; each pair's farm id is the Supplied or Borrowed farm of an indexed
\* asset whose index i has from_index <= i < from_index + limit; and for each
\* asset the Supplied farm comes before the Borrowed farm.
C14_PageBound ==
    \A from_index \in PagedInputs, limit \in PagedInputs :
        LET r == get_asset_farms_paged(Context, from_index, limit).result
            from == IF from_index = None THEN 0 ELSE from_index[1]
            lim == IF limit = None THEN Len(asset_ids) ELSE limit[1]
        IN  /\ Len(r) <= 2 * lim
            /\ \A k \in 1..Len(r) :
                  /\ r[k][1] \in IndexedFarmIds
                  /\ from <= AssetIndex(r[k][1])
                  /\ AssetIndex(r[k][1]) < from + lim
            /\ \A j, k \in 1..Len(r) :
                  (r[j][1][2] = r[k][1][2] /\ r[j][1][1] = "Supplied" /\ r[k][1][1] = "Borrowed")
                      => j < k

\* C14 witness: a page that starts after the first asset has returned both
\* farms of the third asset, the Supplied one first.
C14_Witness ==
    /\ lastOp = "get_asset_farms_paged"
    /\ Len(ret) = 2
    /\ ret[1][1] = Supplied("a3")
    /\ ret[2][1] = Borrowed("a3")
    /\ lookups[1][1] # Supplied("a1")

\* The pages of limit assets each, from from_index on, one after the other.
RECURSIVE Pages(_, _, _)
Pages(c, from_index, limit) ==
    IF from_index >= Len(asset_ids)
    THEN << >>
    ELSE LET page == get_asset_farms_paged(c, Some(from_index), Some(limit))
         IN  page.result \o Pages(page.context, from_index + limit, limit)

\* C8: pagination continuation.  For every limit > 0 the pages
\* get_asset_farms_paged(0, limit), (limit, limit), (2 limit, limit), ... give,
\* one after the other, what one call over the whole index gives; over three
\* assets, (0, 2) followed by (2, 2) gives what (0, 6) gives.
C8_PaginationContinuation ==
    /\ \A limit \in 1..MaxLimit :
          Pages(Context, 0, limit) = get_asset_farms_paged(Context, Some(0), None).result
    /\ Len(asset_ids) = 3 =>
          LET first == get_asset_farms_paged(Context, Some(0), Some(2))
              second == get_asset_farms_paged(first.context, Some(2), Some(2))
          IN  first.result \o second.result
                  = get_asset_farms_paged(Context, Some(0), Some(6)).result

====
